---- MODULE Spec2Model ----
(***************************************************************************)
(* BrickLayers (brick_layers.py): the scan that builds the transform map   *)
(* (_preprocess_gcode_file), the G1 interceptor (_cmd_G1_wrapper,          *)
(* _execute_transformed_move), the console commands and the virtual_sdcard *)
(* work handler hook.                                                      *)
(*                                                                         *)
(* Text is modelled as TLA+ strings, taken apart with Len and SubSeq.      *)
(* Numbers (Python floats) are fixed-point integers counting 10^-8 mm, so  *)
(* that a toolpath number with up to seven decimals, and half of it, are   *)
(* exact; the six-decimal rendering of an emitted field is a rounding.     *)
(***************************************************************************)
EXTENDS Integers, Sequences, FiniteSets, TLC

\* ------------------------------------------------------------------------
\* Bounds of the model.

\* Toolpath loads the host performs in one run (SdLoad).
MaxLoads == 2
\* Moves per feature block of the generated test toolpaths (SimpleGcode).
MaxBlockMoves == 5
\* Layers of the generated test toolpaths (SimpleGcode).
MaxGenLayers == 4
\* Direct calls of _cmd_G1_wrapper in the unit-level specification.
MaxUnitG1 == 3

\* ------------------------------------------------------------------------
\* Numbers.

\* 1.0 as a fixed-point integer.
Scale == 10^8
\* One unit of the sixth decimal (the resolution of "{:.6f}").
Micro == Scale \div 1000000

\* config.getfloat('extrusion_multiplier', 1.05), as the fraction 105/100.
extrusion_multiplier_num == 105
extrusion_multiplier_den == 100

\* layer_height = 0.2  # Default
DefaultLayerHeight == 2 * (Scale \div 10)

SetMin(S) == CHOOSE a \in S : \A b \in S : a <= b
SetMax(S) == CHOOSE a \in S : \A b \in S : a >= b
Abs(n) == IF n < 0 THEN -n ELSE n

\* ------------------------------------------------------------------------
\* Text (str methods used by the scan).

Ch(s, i) == SubSeq(s, i, i)

IsSpace(c) == c \in {" ", "\t", "\n", "\r"}

IsDigit(c) == c \in {"0", "1", "2", "3", "4", "5", "6", "7", "8", "9"}

DigitVal(c) ==
    CASE c = "0" -> 0 [] c = "1" -> 1 [] c = "2" -> 2 [] c = "3" -> 3
      [] c = "4" -> 4 [] c = "5" -> 5 [] c = "6" -> 6 [] c = "7" -> 7
      [] c = "8" -> 8 [] c = "9" -> 9

\* str.strip()
Strip(s) ==
    LET idx == {i \in 1..Len(s) : ~IsSpace(Ch(s, i))}
    IN  IF idx = {} THEN "" ELSE SubSeq(s, SetMin(idx), SetMax(idx))

\* str.startswith(p)
StartsWith(s, p) == Len(s) >= Len(p) /\ SubSeq(s, 1, Len(p)) = p

\* str.find(p) + 1: the first index at which p occurs in s, 0 when it does not.
IndexOf(s, p) ==
    LET idx == {i \in 1..(Len(s) - Len(p) + 1) : SubSeq(s, i, i + Len(p) - 1) = p}
    IN  IF idx = {} THEN 0 ELSE SetMin(idx)

\* p in s
Contains(s, p) == IndexOf(s, p) # 0

\* c.lower() for one character (ASCII).
LowerChar(c) ==
    CASE c = "A" -> "a" [] c = "B" -> "b" [] c = "C" -> "c" [] c = "D" -> "d"
      [] c = "E" -> "e" [] c = "F" -> "f" [] c = "G" -> "g" [] c = "H" -> "h"
      [] c = "I" -> "i" [] c = "J" -> "j" [] c = "K" -> "k" [] c = "L" -> "l"
      [] c = "M" -> "m" [] c = "N" -> "n" [] c = "O" -> "o" [] c = "P" -> "p"
      [] c = "Q" -> "q" [] c = "R" -> "r" [] c = "S" -> "s" [] c = "T" -> "t"
      [] c = "U" -> "u" [] c = "V" -> "v" [] c = "W" -> "w" [] c = "X" -> "x"
      [] c = "Y" -> "y" [] c = "Z" -> "z" [] OTHER -> c

\* str.lower()
RECURSIVE Lower(_)
Lower(s) == IF s = "" THEN "" ELSE LowerChar(Head(s)) \o Lower(Tail(s))

\* An optional value: Python's None, a raised ValueError/IndexError, or a
\* missing command field, against a value that is there.
Nothing == [ok |-> FALSE, v |-> 0]
Some(x) == [ok |-> TRUE, v |-> x]

NoText == [ok |-> FALSE, text |-> ""]
SomeText(t) == [ok |-> TRUE, text |-> t]

\* s.split(':', 1)[1]: the text after the first colon (IndexError without one).
AfterFirstColon(s) ==
    LET c == IndexOf(s, ":")
    IN  IF c = 0 THEN NoText ELSE SomeText(SubSeq(s, c + 1, Len(s)))

\* s.split(':')[1]: the text between the first colon and the next one.
SecondColonField(s) ==
    LET a == AfterFirstColon(s)
        c == IndexOf(a.text, ":")
    IN  IF ~a.ok THEN NoText
        ELSE IF c = 0 THEN a ELSE SomeText(SubSeq(a.text, 1, c - 1))

\* s.split()[0]: the first whitespace-delimited token (IndexError without one).
FirstToken(s) ==
    LET t == Strip(s)
        sp == {i \in 1..Len(t) : IsSpace(Ch(t, i))}
    IN  IF t = "" THEN NoText
        ELSE IF sp = {} THEN SomeText(t) ELSE SomeText(SubSeq(t, 1, SetMin(sp) - 1))

AllDigits(s) == \A i \in 1..Len(s) : IsDigit(Ch(s, i))

\* The value of a digit string (the integer part of a number).
RECURSIVE DigitsValue(_)
DigitsValue(s) ==
    IF s = "" THEN 0
    ELSE DigitsValue(SubSeq(s, 1, Len(s) - 1)) * 10 + DigitVal(Ch(s, Len(s)))

\* The value of the digits after the point, the first digit worth `unit`.
RECURSIVE FractionValue(_, _)
FractionValue(s, unit) ==
    IF s = "" \/ unit = 0 THEN 0
    ELSE DigitVal(Head(s)) * unit + FractionValue(Tail(s), unit \div 10)

\* float(s) for a plain decimal: surrounding whitespace, an optional sign,
\* digits with at most one point and at least one digit; anything else is a
\* ValueError (Nothing).
ParseFloat(s0) ==
    LET s    == Strip(s0)
        sgn  == s # "" /\ Ch(s, 1) \in {"+", "-"}
        body == IF sgn THEN SubSeq(s, 2, Len(s)) ELSE s
        dot  == IndexOf(body, ".")
        ip   == IF dot = 0 THEN body ELSE SubSeq(body, 1, dot - 1)
        fp   == IF dot = 0 THEN "" ELSE SubSeq(body, dot + 1, Len(body))
        mag  == DigitsValue(ip) * Scale + FractionValue(fp, Scale \div 10)
    IN  IF AllDigits(ip) /\ AllDigits(fp) /\ Len(ip) + Len(fp) > 0
        THEN Some(IF sgn /\ Ch(s, 1) = "-" THEN -mag ELSE mag)
        ELSE Nothing

\* The length of the run of digits of s that starts at index j.
DigitRun(s, j) ==
    LET stop == {k \in j..(Len(s) + 1) : k = Len(s) + 1 \/ ~IsDigit(Ch(s, k))}
    IN  IF j > Len(s) THEN 0 ELSE SetMin(stop) - j

\* The text [-+]?[0-9]*\.?[0-9]+ matches at index j of s ("" when it does not
\* match there).
NumberAt(s, j) ==
    LET j1 == IF j <= Len(s) /\ Ch(s, j) \in {"+", "-"} THEN j + 1 ELSE j
        d1 == DigitRun(s, j1)
        d2 == IF j1 + d1 <= Len(s) /\ Ch(s, j1 + d1) = "."
              THEN DigitRun(s, j1 + d1 + 1) ELSE 0
    IN  IF d2 > 0 THEN SubSeq(s, j, j1 + d1 + d2)
        ELSE IF d1 > 0 THEN SubSeq(s, j, j1 + d1 - 1)
        ELSE ""

\* re.search(r'Z([-+]?[0-9]*\.?[0-9]+)', s): group 1 of the leftmost match.
SearchZ(s) ==
    LET at == {i \in 1..Len(s) : Ch(s, i) = "Z" /\ NumberAt(s, i + 1) # ""}
    IN  IF at = {} THEN NoText ELSE SomeText(NumberAt(s, SetMin(at) + 1))

\* ------------------------------------------------------------------------
\* Toolpaths.  A path is a record; NoFile stands for None (file_path() of an
\* sdcard with no file, last_preprocessed_file before the first scan): the
\* code only tests a path for truth and compares two paths.

NoFile == [name |-> "", m |-> 0, layers |-> 0]
Path(name) == [name |-> name, m |-> 0, layers |-> 0]

DigitText(d) ==
    CASE d = 0 -> "0" [] d = 1 -> "1" [] d = 2 -> "2" [] d = 3 -> "3"
      [] d = 4 -> "4" [] d = 5 -> "5" [] d = 6 -> "6" [] d = 7 -> "7"
      [] d = 8 -> "8" [] d = 9 -> "9"

\* The Z of layer k of a generated toolpath, 0.2 mm per layer, as text.
ZText(k) == DigitText((2 * k) \div 10) \o "." \o DigitText((2 * k) % 10)

Repeat(line, m) == [i \in 1..m |-> line]

\* One layer of the test toolpath: the marker, its annotations, m moves of
\* external perimeter and m moves of inner wall.
LayerBlock(m, k) ==
    <<";LAYER_CHANGE", ";Z:" \o ZText(k)>>
    \o (IF k = 1 THEN <<";HEIGHT:0.2">> ELSE <<>>)
    \o <<";TYPE:External perimeter">> \o Repeat("G1 X10 Y10 E0.5", m)
    \o <<";TYPE:Inner wall">> \o Repeat("G1 X9 Y9 E0.4", m)

RECURSIVE GenLayers(_, _)
GenLayers(m, n) == IF n = 0 THEN <<>> ELSE GenLayers(m, n - 1) \o LayerBlock(m, n)

\* tests/sample_gcode/simple.gcode, generalised to m moves per block and n
\* layers (m = 5, n = 2 puts the moves on file lines 6-10, 12-16, 20-24, 26-30).
SimpleGcode(m, n) == <<"; generated by a slicer">> \o GenLayers(m, n)

SimplePath(m, n) == [name |-> "simple.gcode", m |-> m, layers |-> n]

\* A print with two inner-wall moves in a row and an outer wall.
FileA ==
    << ";LAYER_CHANGE",
       ";Z:0.2",
       ";TYPE:Inner wall",
       "G1 X1 Y1 E0.01234",
       "G1 X2 Y1 E0.00001 F15",
       ";TYPE:Outer wall",
       "G1 X3 Y3 E0.02" >>

\* A print that retracts in firmware (G10) before its inner wall.
FileB ==
    << ";LAYER_CHANGE",
       "G10",
       ";TYPE:WALL-INNER",
       "G1 Z0.4 F6",
       "G1 X5 Y5 E0.03",
       "G1 X6" >>

\* A print whose text cannot be decoded from its fourth line on.
FileC ==
    << ";LAYER_CHANGE",
       ";TYPE:Inner wall",
       "G1 X1 Y1 E0.01",
       "G1 X2 Y2 E0.01" >>

\* The feature labels of several slicers, a Z with a sub-micron digit and
\* annotations that do not parse.
FileLabels ==
    << ";HEIGHT:0.2",
       ";LAYER_CHANGE",
       ";Z:0.2000004",
       ";TYPE:Inner wall",
       "G1 X1 Y1 E0.01",
       ";TYPE:WALL-INNER",
       "G1 X2 Y2 E0.01",
       ";TYPE:Internal perimeter 2",
       "G1 X3 Y3 E0.01",
       ";TYPE:Outer wall",
       "G1 X4 Y4 E0.01",
       ";LAYER:2",
       ";Z:abc",
       ";HEIGHT:",
       ";TYPE:inner",
       "  G1 X5 Z0.6 ",
       ";TYPE:",
       "G1 X6" >>

\* A print that moves before its first annotation, takes its Z from a move
\* line, and has feature annotations without a label and Z and height
\* annotations without a number.
FilePrelude ==
    << "G1 X1 Y1 E0.01",
       ";LAYER_CHANGE",
       "G1 Z0.2 F6",
       ";TYPE:Inner wall",
       "G1 X2 Y2 E0.01",
       ";TYPE:",
       "G1 X3 Y3 E0.01",
       ";TYPE:Inner wall",
       ";TYPE:   ",
       "G1 X4 Y4 E0.01",
       ";Z:0.4",
       ";Z:oops",
       ";HEIGHT: ",
       ";TYPE:inner",
       "G1 X5 Y5 E0.01" >>

\* A print with lines that match more than one branch of the scan loop, move
\* lines without a space after G1, and a layer without annotations of its
\* own.
FileMixed ==
    << ";TYPE:Inner wall",
       ";LAYER_CHANGE",
       ";Z:0.2",
       "G1 X1 Y1 E0.01",
       "G1 X2 ;LAYER_CHANGE",
       "G1 X3 ;TYPE:inner",
       "G1X4 Y4",
       "G10",
       ";Z:0.4 ;TYPE:outer",
       ";HEIGHT:0.3 ;TYPE:outer",
       ";LAYER:3 ;Z:0.9",
       "G1 X5 Y5 E0.01",
       "M104 S200" >>

\* A print sliced by Cura: ";LAYER:n" markers and WALL-INNER labels.
FileCura ==
    << ";LAYER:0",
       ";TYPE:WALL-OUTER",
       "G1 X1 Y1 E0.01",
       ";TYPE:WALL-INNER",
       "G1 X2 Y2 E0.01",
       ";LAYER:1",
       ";TYPE:WALL-INNER",
       "G1 X3 Y3 E0.01" >>

FileLines(path) ==
    CASE path.name = "simple.gcode" -> SimpleGcode(path.m, path.layers)
      [] path.name = "a.gcode" -> FileA
      [] path.name = "b.gcode" -> FileB
      [] path.name = "c.gcode" -> FileC
      [] path.name = "labels.gcode" -> FileLabels
      [] path.name = "prelude.gcode" -> FilePrelude
      [] path.name = "mixed.gcode" -> FileMixed
      [] path.name = "cura.gcode" -> FileCura
      [] OTHER -> <<>>

\* The number of lines `for line in f` yields before reading raises (open()
\* itself raising is 0); Nothing for a file that reads to its end.
ReadFailsAfter(path) ==
    CASE path.name = "c.gcode" -> Some(3)
      [] path.name = "missing.gcode" -> Some(0)
      [] OTHER -> Nothing

\* ------------------------------------------------------------------------
\* The scan (_preprocess_gcode_file).

\* The scan's locals (lines 334-340) and the map it fills.
ScanInit ==
    [layer |-> 0, current_type |-> NoText, brick_offset_state |-> FALSE,
     current_z |-> 0, layer_height |-> DefaultLayerHeight, g1_count |-> 0,
     line_count |-> 0, transform_map |-> <<>>]

IsLayerMarker(s) == Contains(s, ";LAYER_CHANGE") \/ StartsWith(s, ";LAYER:")
IsZAnnotation(s) == StartsWith(s, ";Z:")
IsHeightAnnotation(s) == StartsWith(s, ";HEIGHT:") \/ StartsWith(s, ";layer_height")
IsTypeAnnotation(s) == Contains(s, ";TYPE:")
IsG1Line(s) == StartsWith(s, "G1")

\* Mutant of LineKind: a line starting with G1 is a move before anything
\* else.
LineKindMoveFirst(s) ==
    IF IsG1Line(s) THEN "g1"
    ELSE IF IsLayerMarker(s) THEN "layer"
    ELSE IF IsZAnnotation(s) THEN "z"
    ELSE IF IsHeightAnnotation(s) THEN "height"
    ELSE IF IsTypeAnnotation(s) THEN "type"
    ELSE "other"

\* The branch of the scan loop a stripped line takes (first match wins).
LineKind(s) ==
    IF IsLayerMarker(s) THEN "layer"
    ELSE IF IsZAnnotation(s) THEN "z"
    ELSE IF IsHeightAnnotation(s) THEN "height"
    ELSE IF IsTypeAnnotation(s) THEN "type"
    ELSE IF IsG1Line(s) THEN "g1"
    ELSE "other"

\* Mutant of OnLayerMarker: the offset state alternates on every marker,
\* whatever start_layer is.
OnLayerMarkerAlwaysFlips(st, T) ==
    [st EXCEPT !.layer = @ + 1, !.brick_offset_state = ~@]

\* Mutant of OnLayerMarker: a new layer starts from the defaults.
OnLayerMarkerResets(st, T) ==
    [st EXCEPT !.layer = @ + 1,
               !.brick_offset_state = IF st.layer + 1 >= T THEN ~@ ELSE @,
               !.current_z = 0,
               !.layer_height = DefaultLayerHeight,
               !.current_type = NoText]

\* layer += 1, and the offset state alternates from start_layer on.
OnLayerMarker(st, T) ==
    [st EXCEPT !.layer = @ + 1,
               !.brick_offset_state = IF st.layer + 1 >= T THEN ~@ ELSE @]

\* Mutant of OnZAnnotation: a payload that is not a number resets current_z.
OnZAnnotationResets(st, s) ==
    LET v == ParseFloat(SecondColonField(s).text)
    IN  [st EXCEPT !.current_z = IF v.ok THEN v.v ELSE 0]

\* current_z = float(line_stripped.split(':')[1]), ValueError ignored.
OnZAnnotation(st, s) ==
    LET v == ParseFloat(SecondColonField(s).text)
    IN  IF v.ok THEN [st EXCEPT !.current_z = v.v] ELSE st

\* layer_height = float(line_stripped.split(':')[1].split()[0]), ValueError
\* and IndexError ignored.
OnHeightAnnotation(st, s) ==
    LET f   == SecondColonField(s)
        tok == IF f.ok THEN FirstToken(f.text) ELSE NoText
        v   == IF tok.ok THEN ParseFloat(tok.text) ELSE Nothing
    IN  IF v.ok THEN [st EXCEPT !.layer_height = v.v] ELSE st

\* Mutant of OnTypeAnnotation: an annotation without a label is ignored.
OnTypeAnnotationKeepsPrior(st, s) ==
    LET a == AfterFirstColon(s)
    IN  IF a.ok /\ Strip(a.text) # ""
        THEN [st EXCEPT !.current_type = SomeText(Strip(a.text))] ELSE st

\* current_type = line_stripped.split(':', 1)[1].strip()
OnTypeAnnotation(st, s) ==
    LET a == AfterFirstColon(s)
    IN  IF a.ok THEN [st EXCEPT !.current_type = SomeText(Strip(a.text))] ELSE st

\* is_inner = current_type and 'inner' in current_type.lower()
IsInner(current_type) ==
    /\ current_type.ok
    /\ current_type.text # ""
    /\ Contains(Lower(current_type.text), "inner")

\* The instruction stored for a move (lines 418-429).
TransformInfo(st) ==
    [layer |-> st.layer, type |-> st.current_type.text,
     offset_state |-> st.brick_offset_state, current_z |-> st.current_z,
     layer_height |-> st.layer_height,
     brick_z |-> st.current_z + (st.layer_height \div 2),
     file_line |-> st.line_count]

\* Mutant of OnG1Line: the instruction is keyed by the file line, not by the
\* number of the G1 command.
OnG1LineKeyedByFileLine(st, s, T) ==
    LET st1 == [st EXCEPT !.g1_count = @ + 1]
    IN  IF IsInner(st1.current_type) /\ st1.layer >= T
        THEN [st1 EXCEPT !.transform_map =
                  (st1.line_count :> TransformInfo(st1)) @@ st1.transform_map]
        ELSE st1

\* Mutant of OnG1Line: the instruction is made before the Z of the line is
\* taken.
OnG1LineStaleZ(st, s, T) ==
    LET z   == IF Contains(s, "Z") THEN SearchZ(s) ELSE NoText
        st1 == [st EXCEPT !.g1_count = @ + 1]
        st2 == IF IsInner(st1.current_type) /\ st1.layer >= T
               THEN [st1 EXCEPT !.transform_map =
                        (st1.g1_count :> TransformInfo(st1)) @@ st1.transform_map]
               ELSE st1
    IN  [st2 EXCEPT !.current_z = IF z.ok THEN ParseFloat(z.text).v ELSE @]

\* A G1 line: count it, take a Z it carries, and map it when it is inner wall
\* at or above start_layer.
OnG1Line(st, s, T) ==
    LET z   == IF Contains(s, "Z") THEN SearchZ(s) ELSE NoText
        st1 == [st EXCEPT !.g1_count = @ + 1,
                          !.current_z = IF z.ok THEN ParseFloat(z.text).v ELSE @]
    IN  IF IsInner(st1.current_type) /\ st1.layer >= T
        THEN [st1 EXCEPT !.transform_map =
                  (st1.g1_count :> TransformInfo(st1)) @@ st1.transform_map]
        ELSE st1

\* One iteration of `for line in f` (lines 350-435).
ScanLine(st, line, T) ==
    LET s   == Strip(line)
        st1 == [st EXCEPT !.line_count = @ + 1]
        k   == LineKind(s)
    IN  CASE k = "layer"  -> OnLayerMarker(st1, T)
          [] k = "z"      -> OnZAnnotation(st1, s)
          [] k = "height" -> OnHeightAnnotation(st1, s)
          [] k = "type"   -> OnTypeAnnotation(st1, s)
          [] k = "g1"     -> OnG1Line(st1, s, T)
          [] OTHER        -> st1

\* The scan's state after lines lo..hi, entered in state st.  (The loop is
\* unfolded by halves, and the test on the left half only orders the
\* evaluation: both keep the evaluator's stack shallow on long toolpaths.)
RECURSIVE ScanRange(_, _, _, _, _)
ScanRange(st, lines, lo, hi, T) ==
    IF lo > hi THEN st
    ELSE IF lo = hi THEN ScanLine(st, lines[lo], T)
    ELSE LET mid  == (lo + hi) \div 2
             left == ScanRange(st, lines, lo, mid, T)
         IN  IF left.line_count >= 0
             THEN ScanRange(left, lines, mid + 1, hi, T) ELSE left

\* The scan's state after the first n lines.
ScanPrefix(lines, n, T) == ScanRange(ScanInit, lines, 1, n, T)

\* Mutant of ScanFile: the entries made before reading raised are left in
\* the map.
ScanFileKeepsPartial(path, T) ==
    LET n == IF ReadFailsAfter(path).ok THEN ReadFailsAfter(path).v
             ELSE Len(FileLines(path))
    IN  ScanPrefix(FileLines(path), n, T).transform_map

\* The map _preprocess_gcode_file leaves in self.transform_map: the map of a
\* full pass, or {} when reading raised (lines 458-462).
ScanFile(path, T) ==
    IF ReadFailsAfter(path).ok THEN <<>>
    ELSE ScanPrefix(FileLines(path), Len(FileLines(path)), T).transform_map

\* ------------------------------------------------------------------------
\* State.

VARIABLES
    \* BrickLayers fields (lines 35-50)
    enabled, start_layer, current_layer, transform_map, g1_command_count,
    last_preprocessed_file, stats_moves_transformed, stats_moves_total,
    \* the host's virtual_sdcard: the loaded file (file_path()), the number of
    \* its lines already executed, whether its work handler is running, and
    \* the number of loads so far
    sd_file, sd_pos, sd_active, loads,
    \* what the latest step did: whether it ran _preprocess_gcode_file, and
    \* for a G1 delivered by the host the interceptions it caused, in order
    scanned, g1_events,
    \* whether the latest handler call ended by raising to its caller
    raised,
    \* what scripts/validate_gcode.py last reported for the file
    validation,
    \* history of the latest scan relative to the load now on the sdcard:
    \* "none" (no scan since that load), "start" (scanned before any of its
    \* lines ran) or "mid" (scanned after some of its lines ran)
    scan_sync

engine_vars == <<enabled, start_layer, current_layer, transform_map,
                 g1_command_count, last_preprocessed_file,
                 stats_moves_transformed, stats_moves_total>>
sd_vars == <<sd_file, sd_pos, sd_active, loads>>
obs_vars == <<scanned, g1_events, raised, validation, scan_sync>>
vars == <<engine_vars, sd_vars, obs_vars>>

\* start_layer values the configuration is given (the default is 3).
MaxStartLayer == 3
StartLayers == 0..MaxStartLayer

\* The files on the virtual sdcard.
SdFiles == {Path("a.gcode"), Path("b.gcode"), Path("c.gcode")}

\* The toolpaths handed to the engine method by method.
UnitFiles ==
    {SimplePath(m, n) : m \in 1..MaxBlockMoves, n \in 1..MaxGenLayers}
    \cup {Path("labels.gcode"), Path("prelude.gcode"), Path("mixed.gcode"),
          Path("cura.gcode"), Path("c.gcode"), Path("missing.gcode")}

\* ScanFile and ScanPrefix of every toolpath and start_layer of the model,
\* tabulated once.
ScanTable ==
    [p \in SdFiles \cup UnitFiles |-> [T \in StartLayers |-> ScanFile(p, T)]]
PrefixTable ==
    [p \in SdFiles \cup UnitFiles |-> [T \in StartLayers |->
        [n \in 0..Len(FileLines(p)) |-> ScanPrefix(FileLines(p), n, T)]]]

ScanResult(path, T) == ScanTable[path][T]
ScanStateAt(path, n, T) == PrefixTable[path][T][n]

\* ------------------------------------------------------------------------
\* The interceptor (_cmd_G1_wrapper, _execute_transformed_move).

\* A G1 command as the host hands it over: optional float fields, and where
\* it comes from (the file and line the sdcard read it from; line 0 for a
\* command submitted with run_script).
Gcmd(x, y, z, e, f, file, line) ==
    [X |-> x, Y |-> y, Z |-> z, E |-> e, F |-> f, file |-> file, line |-> line]

\* The renderings "{:.6f}" can give x * num / den: the multiples of 10^-6
\* nearest to it (two when it lies half-way, where the float's last bits
\* decide).
Render6(x, num, den) ==
    LET q     == x \div den
        r     == x % den
        whole == q * num + ((r * num) \div den)
        frac  == (r * num) % den
        lo    == (whole \div Micro) * Micro
        twice == 2 * ((whole - lo) * den + frac)
    IN  IF twice < Micro * den THEN {lo}
        ELSE IF twice > Micro * den THEN {lo + Micro}
        ELSE {lo, lo + Micro}

\* cmd_parts after 'G1' for each field of the command string (lines 261-295):
\* X and Y if present, Z always, E scaled if present, F if present.
PartX(gcmd) == IF gcmd.X.ok THEN {<<[k |-> "X", v |-> r]>> : r \in Render6(gcmd.X.v, 1, 1)}
               ELSE {<<>>}
PartY(gcmd) == IF gcmd.Y.ok THEN {<<[k |-> "Y", v |-> r]>> : r \in Render6(gcmd.Y.v, 1, 1)}
               ELSE {<<>>}
\* Mutant of PartZ: a Z the command carries is kept.
PartZKeepsOriginal(gcmd, info) ==
    {<<[k |-> "Z", v |-> r]>> :
        r \in Render6(IF gcmd.Z.ok THEN gcmd.Z.v ELSE info.brick_z, 1, 1)}

\* Mutant of PartZ: the brick Z is used on layers recorded with offset state
\* true only, and the layer's own Z on the others.
PartZByOffsetState(gcmd, info) ==
    {<<[k |-> "Z", v |-> r]>> :
        r \in Render6(IF info.offset_state THEN info.brick_z ELSE info.current_z,
                      1, 1)}

\* "ALWAYS add/override Z with brick layer height" (line 278).
PartZ(gcmd, info) == {<<[k |-> "Z", v |-> r]>> : r \in Render6(info.brick_z, 1, 1)}
\* Mutant of PartE: E is copied without the multiplier.
PartEUnscaled(gcmd) ==
    IF gcmd.E.ok THEN {<<[k |-> "E", v |-> r]>> : r \in Render6(gcmd.E.v, 1, 1)}
    ELSE {<<>>}

PartE(gcmd) ==
    IF gcmd.E.ok
    THEN {<<[k |-> "E", v |-> r]>> :
             r \in Render6(gcmd.E.v, extrusion_multiplier_num, extrusion_multiplier_den)}
    ELSE {<<>>}
PartF(gcmd) == IF gcmd.F.ok THEN {<<[k |-> "F", v |-> r]>> : r \in Render6(gcmd.F.v, 1, 1)}
               ELSE {<<>>}

\* The command strings _execute_transformed_move can build: the fields after
\* the G1 token, in order, each a letter and its six-decimal value.
ExecuteTransformedMove(gcmd, info) ==
    {x \o y \o z \o e \o f :
        x \in PartX(gcmd), y \in PartY(gcmd), z \in PartZ(gcmd, info),
        e \in PartE(gcmd), f \in PartF(gcmd)}

\* The field `letter` of a command string, as the host parses it back.
ScriptField(parts, letter) ==
    LET at == {i \in 1..Len(parts) : parts[i].k = letter}
    IN  IF at = {} THEN Nothing ELSE Some(parts[SetMin(at)].v)

ScriptGcmd(parts) ==
    Gcmd(ScriptField(parts, "X"), ScriptField(parts, "Y"), ScriptField(parts, "Z"),
         ScriptField(parts, "E"), ScriptField(parts, "F"), NoFile, 0)

\* The counters a call of _cmd_G1_wrapper reads and writes.
Counters == [count |-> g1_command_count, layer |-> current_layer,
             transformed |-> stats_moves_transformed, total |-> stats_moves_total]

\* One interception: the ordinal the command got, the command, and what was
\* done with it: the command handed to original_cmd_G1 (line 253), or the
\* command string handed to gcode.run_script (line 311).
PassEvent(count, gcmd) ==
    [ordinal |-> count, gcmd |-> gcmd, original |-> <<gcmd>>, script |-> <<>>]
RewriteEvent(count, gcmd, parts) ==
    [ordinal |-> count, gcmd |-> gcmd, original |-> <<>>, script |-> parts]

\* Mutant of ShouldTransform: the enabled flag is not consulted.
ShouldTransformWhenMapped(count) == count \in DOMAIN transform_map

\* self.enabled and self.g1_command_count in self.transform_map
ShouldTransform(count) == enabled /\ count \in DOMAIN transform_map

\* Mutant of TrackLayer: the layer is tracked while the engine is enabled
\* only.
TrackLayerWhenEnabled(layer, count) ==
    IF enabled /\ count \in DOMAIN transform_map /\ transform_map[count].layer > layer
    THEN transform_map[count].layer ELSE layer

\* current_layer after the update of lines 233-237.
TrackLayer(layer, count) ==
    IF count \in DOMAIN transform_map /\ transform_map[count].layer > layer
    THEN transform_map[count].layer ELSE layer

\* _cmd_G1_wrapper(gcmd) entered with counters w: the counters it can leave
\* and the interceptions it makes.  A rewritten command goes to the host with
\* gcode.run_script; it is a G1, and the host's G1 handler is this wrapper
\* (line 107), so the call nests until an ordinal is passed through to
\* original_cmd_G1.
\* gcode.run_script may raise instead (the host rejects the command); the
\* except clause of lines 312-315 logs and re-raises, and the wrapper has no
\* handler of its own, so line 248 is skipped and the caller sees the error.
RECURSIVE CmdG1Wrapper(_, _)
Outcome(w, events, failed) ==
    [count |-> w.count, layer |-> w.layer, transformed |-> w.transformed,
     total |-> w.total, events |-> events, raised |-> failed]
RunScript(w, parts) ==
    CmdG1Wrapper(w, ScriptGcmd(parts)) \cup {Outcome(w, <<>>, TRUE)}
\* Mutant of AfterRunScript: the move is counted as transformed even when
\* run_script raised.
AfterRunScriptCountsAnyway(r, event) ==
    [r EXCEPT !.transformed = @ + 1, !.events = <<event>> \o @]

AfterRunScript(r, event) ==
    [r EXCEPT !.transformed = IF r.raised THEN @ ELSE @ + 1,
              !.events = <<event>> \o @]
CmdG1Wrapper(w, gcmd) ==
    LET count == w.count + 1
        w1    == [w EXCEPT !.count = count, !.total = @ + 1,
                           !.layer = TrackLayer(w.layer, count)]
    IN  IF ShouldTransform(count)
        THEN UNION {
               {AfterRunScript(r, RewriteEvent(count, gcmd, parts)) :
                    r \in RunScript(w1, parts)} :
               parts \in ExecuteTransformedMove(gcmd, transform_map[count])}
        ELSE {Outcome(w1, <<PassEvent(count, gcmd)>>, FALSE)}

\* The host delivers one G1 command to gcode_move.cmd_G1.
DeliverG1(gcmd) ==
    \E r \in CmdG1Wrapper(Counters, gcmd) :
        /\ g1_command_count' = r.count
        /\ current_layer' = r.layer
        /\ stats_moves_transformed' = r.transformed
        /\ stats_moves_total' = r.total
        /\ g1_events' = r.events
        /\ raised' = r.raised
        /\ UNCHANGED validation
        /\ scanned' = FALSE
        /\ UNCHANGED <<enabled, start_layer, transform_map, last_preprocessed_file,
                       scan_sync>>

\* ------------------------------------------------------------------------
\* The scan as a method of the engine, and the handlers that call it.

\* Mutant of PreprocessGcodeFile: the pass adds to the map it finds.
PreprocessKeepsOldEntries(filename) ==
    /\ transform_map' = ScanResult(filename, start_layer) @@ transform_map
    /\ g1_command_count' = 0
    /\ current_layer' = 0
    /\ stats_moves_transformed' = 0
    /\ stats_moves_total' = 0
    /\ scanned' = TRUE
    /\ raised' = FALSE
    /\ UNCHANGED validation
    /\ scan_sync' = IF sd_pos = 0 THEN "start" ELSE "mid"

\* Mutant of PreprocessGcodeFile: an error of the pass reaches the caller.
PreprocessLetsErrorsEscape(filename) ==
    /\ transform_map' = ScanResult(filename, start_layer)
    /\ g1_command_count' = 0
    /\ current_layer' = 0
    /\ stats_moves_transformed' = 0
    /\ stats_moves_total' = 0
    /\ scanned' = TRUE
    /\ raised' = ReadFailsAfter(filename).ok
    /\ UNCHANGED validation
    /\ scan_sync' = IF sd_pos = 0 THEN "start" ELSE "mid"

\* Mutant of PreprocessGcodeFile: the map is replaced and the runtime ordinal
\* is left as it was.
PreprocessKeepsOrdinal(filename) ==
    /\ transform_map' = ScanResult(filename, start_layer)
    /\ g1_command_count' = g1_command_count
    /\ current_layer' = 0
    /\ stats_moves_transformed' = 0
    /\ stats_moves_total' = 0
    /\ scanned' = TRUE
    /\ raised' = FALSE
    /\ UNCHANGED validation
    /\ scan_sync' = IF sd_pos = 0 THEN "start" ELSE "mid"

\* _preprocess_gcode_file(filename): lines 327-331 reset the map, the runtime
\* ordinal, the reported layer and the statistics; the pass (or its failure)
\* leaves the map.
PreprocessGcodeFile(filename) ==
    /\ transform_map' = ScanResult(filename, start_layer)
    /\ g1_command_count' = 0
    /\ current_layer' = 0
    /\ stats_moves_transformed' = 0
    /\ stats_moves_total' = 0
    /\ scanned' = TRUE
    /\ raised' = FALSE
    /\ UNCHANGED validation
    /\ scan_sync' = IF sd_pos = 0 THEN "start" ELSE "mid"

NoScan ==
    /\ scanned' = FALSE
    /\ raised' = FALSE
    /\ UNCHANGED validation
    /\ UNCHANGED <<transform_map, g1_command_count, current_layer,
                   stats_moves_transformed, stats_moves_total, scan_sync>>

\* BRICK_LAYERS_ENABLE
CmdEnable ==
    /\ enabled' = TRUE
    /\ IF transform_map = <<>> /\ sd_file # NoFile
       THEN PreprocessGcodeFile(sd_file)
       ELSE NoScan
    /\ g1_events' = <<>>
    /\ UNCHANGED <<start_layer, last_preprocessed_file, sd_vars>>

\* Mutant of CmdDisable: disabling also drops the map.
CmdDisableClearsMap ==
    /\ enabled' = FALSE
    /\ transform_map' = <<>>
    /\ scanned' = FALSE
    /\ raised' = FALSE
    /\ UNCHANGED validation
    /\ g1_events' = <<>>
    /\ UNCHANGED <<g1_command_count, current_layer, stats_moves_transformed,
                   stats_moves_total, scan_sync>>
    /\ UNCHANGED <<start_layer, last_preprocessed_file, sd_vars>>

\* BRICK_LAYERS_DISABLE
CmdDisable ==
    /\ enabled' = FALSE
    /\ NoScan
    /\ g1_events' = <<>>
    /\ UNCHANGED <<start_layer, last_preprocessed_file, sd_vars>>

\* BRICK_LAYERS_RELOAD
CmdReload ==
    /\ IF sd_file # NoFile THEN PreprocessGcodeFile(sd_file) ELSE NoScan
    /\ g1_events' = <<>>
    /\ UNCHANGED <<enabled, start_layer, last_preprocessed_file, sd_vars>>

\* _work_handler_wrapper: the host starts (or resumes) executing the loaded
\* file; a file other than the last one scanned is scanned when enabled.
WorkHandler ==
    /\ sd_file # NoFile
    /\ ~sd_active
    /\ IF enabled /\ sd_file # last_preprocessed_file
       THEN PreprocessGcodeFile(sd_file) /\ last_preprocessed_file' = sd_file
       ELSE NoScan /\ UNCHANGED last_preprocessed_file
    /\ sd_active' = TRUE
    /\ g1_events' = <<>>
    /\ UNCHANGED <<enabled, start_layer, sd_file, sd_pos, loads>>

\* ------------------------------------------------------------------------
\* scripts/validate_gcode.py.

\* The validator's locals (lines 21-27).
ValidateInit ==
    [has_layer_change |-> FALSE, has_type_comments |-> FALSE, layer_count |-> 0,
     line_count |-> 0, transform_moves |-> 0, current_type |-> NoText]

\* One iteration of the validator's loop (lines 32-48): three tests in a
\* row, none of which skips the others.
ValidateLine(v, line) ==
    LET s  == Strip(line)
        v1 == [v EXCEPT !.line_count = @ + 1]
        v2 == IF Contains(s, ";LAYER_CHANGE")
              THEN [v1 EXCEPT !.has_layer_change = TRUE, !.layer_count = @ + 1]
              ELSE v1
        v3 == IF Contains(s, ";TYPE:")
              THEN [v2 EXCEPT !.has_type_comments = TRUE,
                              !.current_type = SomeText(Strip(AfterFirstColon(s).text))]
              ELSE v2
    IN  IF /\ StartsWith(s, "G1")
           /\ v3.current_type.ok
           /\ v3.current_type.text # ""
           /\ Contains(Lower(v3.current_type.text), "inner")
        THEN [v3 EXCEPT !.transform_moves = @ + 1]
        ELSE v3

\* The validator's locals after lines lo..hi (unfolded by halves, as
\* ScanRange).
RECURSIVE ValidateRange(_, _, _, _)
ValidateRange(v, lines, lo, hi) ==
    IF lo > hi THEN v
    ELSE IF lo = hi THEN ValidateLine(v, lines[lo])
    ELSE LET mid  == (lo + hi) \div 2
             left == ValidateRange(v, lines, lo, mid)
         IN  IF left.line_count >= 0
             THEN ValidateRange(left, lines, mid + 1, hi) ELSE left

\* No report yet, and the report of validate_gcode(filepath): False for a
\* path that does not exist (lines 14-16), an error when reading raises (the
\* loop has no handler), else compatible exactly when a ;LAYER_CHANGE and a
\* ;TYPE: comment were seen (line 67).
NotValidated ==
    [done |-> FALSE, raised |-> FALSE, compatible |-> FALSE, transform_moves |-> 0]
ValidateGcode(path) ==
    IF ReadFailsAfter(path).ok
    THEN [done |-> TRUE, raised |-> ReadFailsAfter(path).v > 0,
          compatible |-> FALSE, transform_moves |-> 0]
    ELSE LET v == ValidateRange(ValidateInit, FileLines(path), 1, Len(FileLines(path)))
         IN  [done |-> TRUE, raised |-> FALSE,
              compatible |-> v.has_layer_change /\ v.has_type_comments,
              transform_moves |-> v.transform_moves]

\* ValidateGcode of every toolpath of the model, tabulated once.
ValidateTable == [p \in SdFiles \cup UnitFiles |-> ValidateGcode(p)]

\* ------------------------------------------------------------------------
\* The host: virtual_sdcard executing the loaded file line by line, and the
\* dispatch of each command to its handler.

\* The command of a line: its text before any ';' comment.
HostCommandText(line) ==
    LET c == IndexOf(line, ";")
    IN  Strip(IF c = 0 THEN line ELSE SubSeq(line, 1, c - 1))

\* The host hands a line to gcode_move.cmd_G1 when its command word is G1.
HostIsG1(line) == FirstToken(HostCommandText(line)).text = "G1"

\* gcmd.get_float(letter): the number attached to the letter; Nothing when the
\* accessor raises (the field is absent), which the caller's bare except takes
\* as "not present".
GetFloat(cmd, letter) ==
    LET i    == IndexOf(cmd, " " \o letter)
        rest == SubSeq(cmd, i + 2, Len(cmd))
        sp   == IndexOf(rest, " ")
    IN  IF i = 0 THEN Nothing
        ELSE ParseFloat(IF sp = 0 THEN rest ELSE SubSeq(rest, 1, sp - 1))

\* The command object of line number idx of a file.
HostGcmd(path, idx) ==
    LET cmd == HostCommandText(FileLines(path)[idx])
    IN  Gcmd(GetFloat(cmd, "X"), GetFloat(cmd, "Y"), GetFloat(cmd, "Z"),
             GetFloat(cmd, "E"), GetFloat(cmd, "F"), path, idx)

\* The host selects a file to print (file_path() changes; no engine code runs).
SdLoad(f) ==
    /\ ~sd_active
    /\ loads < MaxLoads
    /\ sd_file' = f
    /\ sd_pos' = 0
    /\ loads' = loads + 1
    /\ scanned' = FALSE
    /\ raised' = FALSE
    /\ UNCHANGED validation
    /\ scan_sync' = "none"
    /\ UNCHANGED <<transform_map, g1_command_count, current_layer,
                   stats_moves_transformed, stats_moves_total>>
    /\ g1_events' = <<>>
    /\ UNCHANGED <<enabled, start_layer, last_preprocessed_file, sd_active>>

\* The original work handler executes the next line of the file; at the end
\* of the file it closes it, and a command that raises ends the handler with
\* the file still loaded.
SdExecLine ==
    /\ sd_active
    /\ sd_pos < Len(FileLines(sd_file))
    /\ IF HostIsG1(FileLines(sd_file)[sd_pos + 1])
       THEN DeliverG1(HostGcmd(sd_file, sd_pos + 1))
       ELSE NoScan /\ g1_events' = <<>>
                   /\ UNCHANGED <<enabled, start_layer, last_preprocessed_file>>
    /\ IF sd_pos + 1 = Len(FileLines(sd_file))
       THEN sd_file' = NoFile /\ sd_pos' = 0 /\ sd_active' = FALSE
       ELSE sd_pos' = sd_pos + 1 /\ sd_active' = ~raised' /\ UNCHANGED sd_file
    /\ UNCHANGED loads

\* The print is paused: the work handler returns, and is called again on resume.
SdPause ==
    /\ sd_active
    /\ sd_active' = FALSE
    /\ NoScan
    /\ g1_events' = <<>>
    /\ UNCHANGED <<enabled, start_layer, last_preprocessed_file, sd_file, sd_pos, loads>>

\* ------------------------------------------------------------------------
\* The engine in its host.

\* __init__ (lines 35-50), before any file is loaded.
Constructed ==
    /\ enabled \in BOOLEAN
    /\ start_layer \in StartLayers
    /\ current_layer = 0
    /\ transform_map = <<>>
    /\ g1_command_count = 0
    /\ last_preprocessed_file = NoFile
    /\ stats_moves_transformed = 0
    /\ stats_moves_total = 0
    /\ scanned = FALSE
    /\ g1_events = <<>>
    /\ raised = FALSE
    /\ validation = NotValidated
    /\ scan_sync = "none"

Init ==
    /\ Constructed
    /\ sd_file = NoFile
    /\ sd_pos = 0
    /\ sd_active = FALSE
    /\ loads = 0

Next ==
    \/ \E f \in SdFiles : SdLoad(f)
    \/ WorkHandler
    \/ SdExecLine
    \/ SdPause
    \/ CmdEnable
    \/ CmdDisable
    \/ CmdReload

Spec == Init /\ [][Next]_vars

\* ------------------------------------------------------------------------
\* The engine driven method by method, as tests/test_brick_layers.py drives
\* it: a toolpath and a start_layer are chosen, _preprocess_gcode_file is
\* called on the path and _cmd_G1_wrapper is called with command objects.

\* Field values of the command objects handed to the wrapper: absent, or a
\* number (X with a seventh decimal, E of a short and of a tiny extrusion).
GcmdInputs ==
    {Gcmd(x, y, z, e, f, NoFile, 0) :
        x \in {Nothing, Some(150000030)},
        y \in {Nothing, Some(2 * Scale)},
        z \in {Nothing, Some(20000000)},
        e \in {Nothing, Some(1234000), Some(1000)},
        f \in {Nothing, Some(15 * Scale)}}

UnitInit ==
    /\ Constructed
    /\ sd_file \in UnitFiles
    /\ sd_pos = 0
    /\ sd_active = FALSE
    /\ loads = 1

\* self.bl._preprocess_gcode_file(sample_path)
UnitPreprocess ==
    /\ PreprocessGcodeFile(sd_file)
    /\ g1_events' = <<>>
    /\ UNCHANGED <<enabled, start_layer, last_preprocessed_file, sd_vars>>

\* self.bl._cmd_G1_wrapper(gcmd)
UnitG1(gcmd) ==
    /\ g1_command_count < MaxUnitG1
    /\ DeliverG1(gcmd)
    /\ UNCHANGED sd_vars

UnitNext ==
    \/ UnitPreprocess
    \/ \E gcmd \in GcmdInputs : UnitG1(gcmd)
    \/ CmdEnable
    \/ CmdDisable

UnitSpec == UnitInit /\ [][UnitNext]_vars

\* ------------------------------------------------------------------------
\* The validator and the engine's scan run on the same file, as a user who
\* checks a file before printing it does.

\* python3 scripts/validate_gcode.py <file>
UnitValidate ==
    /\ validation' = ValidateTable[sd_file]
    /\ scanned' = FALSE
    /\ g1_events' = <<>>
    /\ raised' = FALSE
    /\ UNCHANGED <<engine_vars, sd_vars, scan_sync>>

ValidateNext ==
    \/ UnitValidate
    \/ UnitPreprocess
    \/ CmdEnable
    \/ CmdDisable

ValidateSpec == UnitInit /\ [][ValidateNext]_vars

\* ------------------------------------------------------------------------
\* Properties.

\* The lines of a file the scan reads before it ends or raises.
LinesRead(path) ==
    IF ReadFailsAfter(path).ok THEN ReadFailsAfter(path).v ELSE Len(FileLines(path))

\* C1: when a toolpath is scanned at load and then executed from its start
\* with no scan in between, every move command of the file is intercepted
\* with the runtime ordinal (g1_command_count after line 229) equal to the
\* ordinal the scan gave that command (g1_count): the live command is a move
\* of the scan, and the two numbers agree.
C1_ScanOrdinalIsRuntimeOrdinal ==
    \A i \in 1..Len(g1_events) :
        LET e == g1_events[i]
        IN  (e.gcmd.line # 0 /\ scan_sync = "start") =>
                /\ LineKind(Strip(FileLines(e.gcmd.file)[e.gcmd.line])) = "g1"
                /\ e.ordinal =
                      ScanStateAt(e.gcmd.file, e.gcmd.line, start_layer).g1_count

\* C2: every load of a toolpath resets the runtime ordinal: when the work
\* handler starts a newly loaded file (none of its lines executed, no scan
\* since the load), g1_command_count is 0 afterwards, whether the engine is
\* enabled or not and whether the path is the one scanned last or not.
C2_EveryLoadResetsOrdinal ==
    [][(~sd_active /\ sd_active' /\ sd_pos = 0 /\ scan_sync = "none")
          => g1_command_count' = 0]_vars

\* C3: the interceptor never consults a map built from another toolpath:
\* whenever a command of the loaded file is intercepted while the engine is
\* enabled (so that the map is looked up) and the map is not empty, the map
\* is the one the scan builds from that file.
C3_MapBuiltFromLoadedToolpath ==
    \A i \in 1..Len(g1_events) :
        LET e == g1_events[i]
        IN  (enabled /\ e.gcmd.line # 0 /\ transform_map # <<>>) =>
                transform_map = ScanResult(e.gcmd.file, start_layer)

\* C4: the map and the runtime ordinal are replaced in lock-step: a step that
\* runs the scan (on a new file, on enable, on reload, failing or not), or
\* that changes the map in any way, leaves g1_command_count at 0, and a step
\* that lowers g1_command_count or changes the map is a step that ran the
\* scan.
C4_MapAndOrdinalInLockStep ==
    [][/\ (scanned' \/ transform_map' # transform_map) => g1_command_count' = 0
       /\ (g1_command_count' < g1_command_count \/ transform_map' # transform_map)
             => scanned']_vars

\* C4 witness: a scan in the middle of a print has replaced the map.
C4_Witness ==
    scanned /\ scan_sync = "mid" /\ transform_map # <<>> /\ g1_command_count = 0

\* C5: an intercepted command whose ordinal is not in the map, or that is
\* intercepted while the engine is disabled, or whose instruction is of a
\* layer below start_layer, goes to the original G1 handler as it came, and
\* no command string is submitted for it.
C5_PassThroughUnchanged ==
    \A i \in 1..Len(g1_events) :
        LET e == g1_events[i]
        IN  (\/ e.ordinal \notin DOMAIN transform_map
             \/ ~enabled
             \/ transform_map[e.ordinal].layer < start_layer) =>
                e.original = <<e.gcmd>> /\ e.script = <<>>

\* C5 witness: a command with a mapped ordinal passed through while disabled.
C5_Witness ==
    \E i \in 1..Len(g1_events) :
        /\ ~enabled
        /\ g1_events[i].ordinal \in DOMAIN transform_map
        /\ g1_events[i].original = <<g1_events[i].gcmd>>

\* C6: after a scan, every move under the labels "Inner wall", "WALL-INNER"
\* and "Internal perimeter 2" at a layer >= start_layer has a map entry, and
\* no move under "Outer wall" has one.
C6_SlicerLabelsAreInnerWall ==
    scanned =>
        \A n \in 1..LinesRead(sd_file) :
            LET st    == ScanStateAt(sd_file, n, start_layer)
                label == st.current_type.text
            IN  LineKind(Strip(FileLines(sd_file)[n])) = "g1" =>
                    /\ (/\ label \in {"Inner wall", "WALL-INNER", "Internal perimeter 2"}
                        /\ st.layer >= start_layer)
                          => st.g1_count \in DOMAIN transform_map
                    /\ label = "Outer wall" => st.g1_count \notin DOMAIN transform_map

\* C7, as claimed: the Z of every rewritten command equals the brick_z of the
\* instruction applied.
C7_EmittedZIsBrickZ ==
    \A i \in 1..Len(g1_events) :
        LET e == g1_events[i]
        IN  e.script # <<>> =>
                ScriptField(e.script, "Z") = Some(transform_map[e.ordinal].brick_z)

\* C7, amended: every rewritten command has exactly one Z field, and it is
\* brick_z rendered to six decimals (a multiple of 10^-6 at most half of
\* 10^-6 from brick_z), whether or not the original command carried a Z.
C7_EmittedZIsBrickZRounded ==
    \A i \in 1..Len(g1_events) :
        LET e == g1_events[i]
            z == ScriptField(e.script, "Z")
        IN  e.script # <<>> =>
                /\ Cardinality({j \in 1..Len(e.script) : e.script[j].k = "Z"}) = 1
                /\ z.v % Micro = 0
                /\ 2 * Abs(z.v - transform_map[e.ordinal].brick_z) <= Micro

\* C7 witness: a command that carried a Z of its own was rewritten with
\* another Z, the rendered brick_z of its instruction.
C7_Witness ==
    \E i \in 1..Len(g1_events) :
        /\ g1_events[i].script # <<>>
        /\ g1_events[i].gcmd.Z.ok
        /\ ScriptField(g1_events[i].script, "Z") # g1_events[i].gcmd.Z
        /\ 2 * Abs(ScriptField(g1_events[i].script, "Z").v
                     - transform_map[g1_events[i].ordinal].brick_z) <= Micro

\* The letters of a command string, in order.
Letters(parts) == [j \in 1..Len(parts) |-> parts[j].k]

\* The letters X, Y, Z, E, F a command string may carry, those of `present`
\* kept, in that order.
RECURSIVE Keep(_, _)
Keep(letters, present) ==
    IF letters = <<>> THEN <<>>
    ELSE (IF Head(letters) \in present THEN <<Head(letters)>> ELSE <<>>)
         \o Keep(Tail(letters), present)

\* The fields a command object carries.
Present(gcmd) ==
    {k \in {"X", "Y", "E", "F"} :
        (CASE k = "X" -> gcmd.X [] k = "Y" -> gcmd.Y [] k = "E" -> gcmd.E
           [] k = "F" -> gcmd.F).ok}

\* C8, as claimed: a rewritten command carries Z and the fields of X, Y, E, F
\* the original carries, in the order X, Y, Z, E, F; X, Y and F have their
\* original values and E is the original E times extrusion_multiplier.
C8_FieldsCopiedAndEScaled ==
    \A i \in 1..Len(g1_events) :
        LET e == g1_events[i]
        IN  e.script # <<>> =>
                /\ Letters(e.script) =
                      Keep(<<"X", "Y", "Z", "E", "F">>, Present(e.gcmd) \cup {"Z"})
                /\ e.gcmd.X.ok => ScriptField(e.script, "X") = e.gcmd.X
                /\ e.gcmd.Y.ok => ScriptField(e.script, "Y") = e.gcmd.Y
                /\ e.gcmd.F.ok => ScriptField(e.script, "F") = e.gcmd.F
                /\ e.gcmd.E.ok =>
                      ScriptField(e.script, "E").v * extrusion_multiplier_den
                          = e.gcmd.E.v * extrusion_multiplier_num

\* C8, amended: the same fields in the same order; X, Y and F are the
\* original values rendered to six decimals, and E is the original E times
\* extrusion_multiplier rendered to six decimals.
C8_FieldsCopiedAndEScaledRounded ==
    \A i \in 1..Len(g1_events) :
        LET e == g1_events[i]
            Near(out, x, num, den) ==
                /\ out.ok
                /\ out.v % Micro = 0
                /\ 2 * Abs(out.v * den - x * num) <= Micro * den
        IN  e.script # <<>> =>
                /\ Letters(e.script) =
                      Keep(<<"X", "Y", "Z", "E", "F">>, Present(e.gcmd) \cup {"Z"})
                /\ e.gcmd.X.ok => Near(ScriptField(e.script, "X"), e.gcmd.X.v, 1, 1)
                /\ e.gcmd.Y.ok => Near(ScriptField(e.script, "Y"), e.gcmd.Y.v, 1, 1)
                /\ e.gcmd.F.ok => Near(ScriptField(e.script, "F"), e.gcmd.F.v, 1, 1)
                /\ e.gcmd.E.ok =>
                      Near(ScriptField(e.script, "E"), e.gcmd.E.v,
                           extrusion_multiplier_num, extrusion_multiplier_den)

\* C8 witness: a command with X, Y, E and F was rewritten, and its E is not
\* the E it came with.
C8_Witness ==
    \E i \in 1..Len(g1_events) :
        /\ g1_events[i].script # <<>>
        /\ Present(g1_events[i].gcmd) = {"X", "Y", "E", "F"}
        /\ Letters(g1_events[i].script) = <<"X", "Y", "Z", "E", "F">>
        /\ ScriptField(g1_events[i].script, "E") # g1_events[i].gcmd.E

\* C9, as claimed: with threshold T the scan's offset state is true exactly
\* at the layers L >= T with L - T even, in every state of the scan and in
\* every instruction it records.
C9_OffsetAlternatesFromStartLayer ==
    scanned =>
        /\ \A n \in 0..LinesRead(sd_file) :
              LET st == ScanStateAt(sd_file, n, start_layer)
              IN  st.brick_offset_state =
                     (st.layer >= start_layer /\ (st.layer - start_layer) % 2 = 0)
        /\ \A k \in DOMAIN transform_map :
              transform_map[k].offset_state =
                  ((transform_map[k].layer - start_layer) % 2 = 0)

\* The first layer whose marker can flip the offset state: layers are entered
\* by markers, so it is never below 1.
FirstOffsetLayer == IF start_layer < 1 THEN 1 ELSE start_layer

\* C9, amended: for a threshold T >= 1 as claimed; for T <= 0 the alternation
\* starts at layer 1 (layer 0, before any marker, has offset state false).
C9_OffsetAlternatesFromFirstMarker ==
    scanned =>
        /\ \A n \in 0..LinesRead(sd_file) :
              LET st == ScanStateAt(sd_file, n, start_layer)
              IN  st.brick_offset_state =
                     (/\ st.layer >= FirstOffsetLayer
                      /\ (st.layer - FirstOffsetLayer) % 2 = 0)
        /\ \A k \in DOMAIN transform_map :
              transform_map[k].offset_state =
                  (/\ transform_map[k].layer >= FirstOffsetLayer
                   /\ (transform_map[k].layer - FirstOffsetLayer) % 2 = 0)

\* C9 witness: a scan with a threshold above 1 recorded instructions at the
\* threshold layer (true), the next (false) and the one after (true).
C9_Witness ==
    /\ scanned
    /\ start_layer > 1
    /\ \E a, b, c \in DOMAIN transform_map :
          /\ transform_map[a].layer = start_layer
          /\ transform_map[b].layer = start_layer + 1
          /\ transform_map[c].layer = start_layer + 2
          /\ transform_map[a].offset_state
          /\ ~transform_map[b].offset_state
          /\ transform_map[c].offset_state

\* The ordinals of the inner-wall moves of SimpleGcode(m, n).
InnerOrdinals(m, n) == UNION {((2 * k - 1) * m + 1)..(2 * k * m) : k \in 1..n}

\* C10: with start_layer 1, the scan of a toolpath whose layers are a marker,
\* m external-perimeter moves and m inner-wall moves maps exactly the
\* ordinals of the inner-wall moves, each with the number of its layer, the
\* offset state true on layer 1 and false on layer 2.
C10_SimpleToolpathMap ==
    (scanned /\ sd_file.name = "simple.gcode" /\ start_layer = 1) =>
        /\ DOMAIN transform_map = InnerOrdinals(sd_file.m, sd_file.layers)
        /\ \A k \in DOMAIN transform_map :
              /\ transform_map[k].layer = ((k - 1) \div (2 * sd_file.m)) + 1
              /\ transform_map[k].layer = 1 => transform_map[k].offset_state
              /\ transform_map[k].layer = 2 => ~transform_map[k].offset_state

\* C10 witness: the scan of simple.gcode (5 moves per block, 2 layers) mapped
\* the ordinals 6-10 and 16-20.
C10_Witness ==
    /\ scanned
    /\ sd_file = SimplePath(5, 2)
    /\ start_layer = 1
    /\ DOMAIN transform_map = (6..10) \cup (16..20)
    /\ transform_map[6].layer = 1 /\ transform_map[6].offset_state
    /\ transform_map[17].layer = 2 /\ ~transform_map[17].offset_state

\* The map a pass over the whole of a readable toolpath builds, started from
\* the scan's own initial state (lines 334-340).
FullScanMap(path, T) == ScanStateAt(path, Len(FileLines(path)), T).transform_map

\* C11: the scan is idempotent: whatever the engine state it is run in (an
\* earlier map of this or another toolpath, advanced counters, enabled or
\* not), a run over a toolpath with the same start_layer leaves the same map,
\* the one a run in the freshly constructed engine leaves.
C11_ScanIsIdempotent ==
    scanned =>
        transform_map = (IF ReadFailsAfter(sd_file).ok THEN <<>>
                         ELSE FullScanMap(sd_file, start_layer))

\* C11 witness: the toolpath the work handler scanned has been scanned again
\* while its print was paused part-way, and the map has entries.
C11_Witness ==
    /\ scanned
    /\ ~sd_active
    /\ sd_pos > 0
    /\ last_preprocessed_file = sd_file
    /\ transform_map # <<>>

\* C12: a scan of a toolpath that cannot be read ends with an empty map, does
\* not raise to its caller and does not change the enabled flag (only
\* BRICK_LAYERS_ENABLE itself sets it); and every command of that toolpath
\* intercepted afterwards goes to the original handler unchanged.
C12_UnreadableSourceLeavesEmptyMap ==
    [][/\ (scanned' /\ ReadFailsAfter(sd_file').ok) =>
             /\ transform_map' = <<>>
             /\ ~raised'
             /\ (enabled' = enabled \/ CmdEnable)
       /\ \A i \in 1..Len(g1_events') :
             LET e == g1_events'[i]
             IN  (/\ scan_sync' # "none"
                  /\ e.gcmd.line # 0
                  /\ ReadFailsAfter(e.gcmd.file).ok) =>
                     /\ e.original = <<e.gcmd>>
                     /\ e.script = <<>>
                     /\ Len(g1_events') = 1
                     /\ ~raised']_vars

\* C12 witness: with the engine enabled, a command of the unreadable
\* c.gcode was passed through after the scan of c.gcode had failed.
C12_Witness ==
    /\ enabled
    /\ scan_sync = "start"
    /\ transform_map = <<>>
    /\ ~raised
    /\ Len(g1_events) = 1
    /\ g1_events[1].gcmd.file = Path("c.gcode")
    /\ g1_events[1].original = <<g1_events[1].gcmd>>

\* C13: at every interceptor step the map is empty or is the complete map of
\* one full scan of one readable toolpath: no map of a scan that stopped
\* part-way is ever looked up.
C13_MapIsEmptyOrComplete ==
    g1_events # <<>> =>
        \/ transform_map = <<>>
        \/ \E f \in SdFiles :
              /\ ~ReadFailsAfter(f).ok
              /\ transform_map = FullScanMap(f, start_layer)

\* C13 witness: a command was rewritten from a map that replaced another one
\* in the middle of the print.
C13_Witness ==
    /\ g1_events # <<>>
    /\ g1_events[1].script # <<>>
    /\ scan_sync = "mid"
    /\ transform_map = FullScanMap(g1_events[1].gcmd.file, start_layer)

\* The payload of a Z annotation (the text between its first and second
\* colon) and of a height annotation (the first word of that text) is a
\* number.
ZPayloadParses(s) == ParseFloat(SecondColonField(s).text).ok
HeightPayloadParses(s) ==
    /\ FirstToken(SecondColonField(s).text).ok
    /\ ParseFloat(FirstToken(SecondColonField(s).text).text).ok

\* C14: a Z annotation or a height annotation whose payload is not a number
\* changes nothing of the scan's state but the line count, the scan goes on
\* to the end of the file without raising, and every instruction carries the
\* current_z and layer_height in force at its line.
C14_MalformedAnnotationRetainsValue ==
    (scanned /\ ~ReadFailsAfter(sd_file).ok) =>
        /\ ~raised
        /\ transform_map = FullScanMap(sd_file, start_layer)
        /\ \A n \in 1..Len(FileLines(sd_file)) :
              LET s      == Strip(FileLines(sd_file)[n])
                  before == ScanStateAt(sd_file, n - 1, start_layer)
                  after  == ScanStateAt(sd_file, n, start_layer)
              IN  (\/ LineKind(s) = "z" /\ ~ZPayloadParses(s)
                   \/ LineKind(s) = "height" /\ ~HeightPayloadParses(s)) =>
                      after = [before EXCEPT !.line_count = n]
        /\ \A k \in DOMAIN transform_map :
              LET at == ScanStateAt(sd_file, transform_map[k].file_line, start_layer)
              IN  /\ transform_map[k].current_z = at.current_z
                  /\ transform_map[k].layer_height = at.layer_height

\* C14 witness: in prelude.gcode the inner-wall move after ";Z:oops" and
\* ";HEIGHT: " is mapped with the Z 0.4 and the height 0.2 set before them.
C14_Witness ==
    /\ scanned
    /\ sd_file = Path("prelude.gcode")
    /\ 6 \in DOMAIN transform_map
    /\ transform_map[6].file_line = 15
    /\ transform_map[6].current_z = 4 * (Scale \div 10)
    /\ transform_map[6].layer_height = DefaultLayerHeight

\* C15: when the host rejects a rewritten command (the interceptions of a
\* delivery end with a command string and not with a command handed to the
\* original handler), the call of the interceptor raises to its caller, the
\* count of transformed moves is what it was before the delivery, and no
\* original command was handed on in place of a rewritten one.
C15_RejectedRewritePropagates ==
    [][(/\ g1_events' # <<>>
        /\ g1_events'[Len(g1_events')].script # <<>>) =>
           /\ raised'
           /\ stats_moves_transformed' = stats_moves_transformed
           /\ \A i \in 1..Len(g1_events') : g1_events'[i].original = <<>>]_vars

\* C15 witness: a command was rewritten, the command string submitted for it
\* was rewritten in turn, and that second string was rejected: the delivery
\* raised and no move is counted as transformed.
C15_Witness ==
    /\ raised
    /\ Len(g1_events) = 2
    /\ g1_events[1].script # <<>>
    /\ g1_events[2].script # <<>>
    /\ stats_moves_total = 2
    /\ stats_moves_transformed = 0

\* BRICK_LAYERS_ENABLE finds no map for a toolpath that is already loaded.
CatchUpCase == transform_map = <<>> /\ sd_file # NoFile

\* C16: BRICK_LAYERS_DISABLE in any state, and BRICK_LAYERS_ENABLE outside
\* the catch-up case, change the enabled flag only: the map, the runtime
\* ordinal, current_layer and the statistics stay as they are and no scan
\* runs.
C16_EnableDisableOnlyToggle ==
    [][(CmdDisable \/ (CmdEnable /\ ~CatchUpCase)) =>
           /\ UNCHANGED <<transform_map, g1_command_count, current_layer,
                          stats_moves_transformed, stats_moves_total>>
           /\ ~scanned'
           /\ enabled' = CmdEnable]_vars

\* C16 witness: the engine is disabled and the map and the counters of the
\* print it transformed moves of are still there.
C16_Witness ==
    /\ ~enabled
    /\ ~scanned
    /\ g1_events = <<>>
    /\ transform_map # <<>>
    /\ g1_command_count > 0
    /\ stats_moves_transformed > 0
    /\ current_layer > 0

\* The lines of a toolpath the scan takes for move commands, and the ordinal
\* of the move on line n.
MoveLines(lines) == {n \in 1..Len(lines) : LineKind(Strip(lines[n])) = "g1"}
MoveOrdinal(lines, n) == Cardinality({j \in MoveLines(lines) : j <= n})

\* The last Z written up to and including line n, by a Z annotation with a
\* number or by a Z field of a move line; 0.0 when there is none.
RECURSIVE LastZWritten(_, _)
LastZWritten(lines, n) ==
    IF n = 0 THEN 0
    ELSE LET s == Strip(lines[n])
         IN  IF LineKind(s) = "z" /\ ZPayloadParses(s)
             THEN ParseFloat(SecondColonField(s).text).v
             ELSE IF LineKind(s) = "g1" /\ Contains(s, "Z") /\ SearchZ(s).ok
             THEN ParseFloat(SearchZ(s).text).v
             ELSE LastZWritten(lines, n - 1)

\* C17: after a successful scan the map has key n exactly when the n-th move
\* of the toolpath was read under an inner-wall label at a layer >=
\* start_layer (so never for a move before the first feature annotation), and
\* the entry records the layer, label, offset state and layer height in force
\* at that move, the last Z written up to and including the move, and
\* brick_z = that Z plus half the layer height.
C17_MapEntriesRecordMoveContext ==
    (scanned /\ ~ReadFailsAfter(sd_file).ok) =>
        LET lines == FileLines(sd_file)
            At(n) == ScanStateAt(sd_file, n - 1, start_layer)
            Mapped == {n \in MoveLines(lines) :
                          IsInner(At(n).current_type) /\ At(n).layer >= start_layer}
        IN  /\ DOMAIN transform_map = {MoveOrdinal(lines, n) : n \in Mapped}
            /\ \A n \in MoveLines(lines) :
                  ~At(n).current_type.ok =>
                      MoveOrdinal(lines, n) \notin DOMAIN transform_map
            /\ \A n \in Mapped :
                  transform_map[MoveOrdinal(lines, n)] =
                      [layer |-> At(n).layer,
                       type |-> At(n).current_type.text,
                       offset_state |-> At(n).brick_offset_state,
                       current_z |-> LastZWritten(lines, n),
                       layer_height |-> At(n).layer_height,
                       brick_z |-> LastZWritten(lines, n) + (At(n).layer_height \div 2),
                       file_line |-> n]

\* C17 witness: with start_layer 0, prelude.gcode maps its third and sixth
\* moves only: the first move, before any annotation, has no entry, the third
\* carries the Z of the move line before it and the sixth the Z of the
\* annotation.
C17_Witness ==
    /\ scanned
    /\ sd_file = Path("prelude.gcode")
    /\ start_layer = 0
    /\ DOMAIN transform_map = {3, 6}
    /\ transform_map[3].current_z = 2 * (Scale \div 10)
    /\ transform_map[3].brick_z = 3 * (Scale \div 10)
    /\ transform_map[6].current_z = 4 * (Scale \div 10)

\* C18: every motion command the host delivers without an error advances
\* the runtime ordinal by exactly 1 and is intercepted exactly once: the
\* command string submitted for a rewritten command is not counted or
\* rewritten again.
C18_OneOrdinalPerDeliveredCommand ==
    [][(g1_events' # <<>> /\ ~raised') =>
           /\ g1_command_count' = g1_command_count + 1
           /\ Len(g1_events') = 1]_vars

\* C19: after a scan that ran while the loaded toolpath was already
\* executing, every command of the toolpath the interceptor rewrites is the
\* move whose scan ordinal is the key of the instruction applied to it.
C19_MidPrintScanKeepsAlignment ==
    \A i \in 1..Len(g1_events) :
        LET e == g1_events[i]
        IN  (scan_sync = "mid" /\ e.gcmd.line # 0 /\ e.script # <<>>) =>
                /\ LineKind(Strip(FileLines(e.gcmd.file)[e.gcmd.line])) = "g1"
                /\ e.ordinal =
                      ScanStateAt(e.gcmd.file, e.gcmd.line, start_layer).g1_count

\* A feature annotation whose marker has no label after it.
IsEmptyTypeAnnotation(s) ==
    /\ LineKind(s) = "type"
    /\ AfterFirstColon(s).ok
    /\ Strip(AfterFirstColon(s).text) = ""

EventPriority == <<"layer", "z", "height", "type", "g1">>
Matches(kind, s) ==
    CASE kind = "layer"  -> Contains(s, ";LAYER_CHANGE") \/ StartsWith(s, ";LAYER:")
      [] kind = "z"      -> StartsWith(s, ";Z:")
      [] kind = "height" -> StartsWith(s, ";HEIGHT:") \/ StartsWith(s, ";layer_height")
      [] kind = "type"   -> Contains(s, ";TYPE:")
      [] kind = "g1"     -> StartsWith(s, "G1")
FirstMatch(s) ==
    LET hits == {i \in 1..Len(EventPriority) : Matches(EventPriority[i], s)}
    IN  IF hits = {} THEN "other" ELSE EventPriority[SetMin(hits)]

\* C21: every line read produces exactly one scan event, the first in the
\* order layer marker, Z annotation, height annotation, feature annotation,
\* move, other whose pattern it matches: only a layer event changes the layer
\* and the offset state, only a Z or move event current_z, only a height
\* event layer_height, only a feature event the label, and only a move event
\* the move ordinal (by exactly 1) and the map.
C21_OneEventPerLineByPriority ==
    scanned =>
        \A n \in 1..LinesRead(sd_file) :
            LET kind   == FirstMatch(Strip(FileLines(sd_file)[n]))
                before == ScanStateAt(sd_file, n - 1, start_layer)
                after  == ScanStateAt(sd_file, n, start_layer)
            IN  /\ after.line_count = n
                /\ after.layer = before.layer + (IF kind = "layer" THEN 1 ELSE 0)
                /\ after.g1_count = before.g1_count + (IF kind = "g1" THEN 1 ELSE 0)
                /\ kind # "layer" => after.brick_offset_state = before.brick_offset_state
                /\ kind \notin {"z", "g1"} => after.current_z = before.current_z
                /\ kind # "height" => after.layer_height = before.layer_height
                /\ kind # "type" => after.current_type = before.current_type
                /\ kind # "g1" => after.transform_map = before.transform_map

\* C21 witness: in mixed.gcode "G1 X2 ;LAYER_CHANGE" only started layer 2,
\* "G1 X3 ;TYPE:inner" only set the label, and "G1X4 Y4" and "G10" were
\* counted as the second and third move.
C21_Witness ==
    /\ scanned
    /\ sd_file = Path("mixed.gcode")
    /\ ScanStateAt(sd_file, 5, start_layer).layer = 2
    /\ ScanStateAt(sd_file, 6, start_layer).current_type = SomeText("inner")
    /\ ScanStateAt(sd_file, 6, start_layer).g1_count = 1
    /\ ScanStateAt(sd_file, 8, start_layer).g1_count = 3

\* C22: a layer-marker event adds 1 to the layer and flips the offset state
\* when the new layer is >= start_layer, and changes nothing else: the label,
\* current_z, layer_height and the move ordinal of the previous layer stay in
\* force.
C22_LayerMarkerFrame ==
    scanned =>
        \A n \in 1..LinesRead(sd_file) :
            LET before == ScanStateAt(sd_file, n - 1, start_layer)
                after  == ScanStateAt(sd_file, n, start_layer)
            IN  FirstMatch(Strip(FileLines(sd_file)[n])) = "layer" =>
                    after = [before EXCEPT
                                !.line_count = n,
                                !.layer = @ + 1,
                                !.brick_offset_state =
                                    IF before.layer + 1 >= start_layer THEN ~@ ELSE @]

\* C22 witness: layer 3 of mixed.gcode has no annotation of its own, and its
\* move is mapped with the label, the Z 0.2 and the layer height 0.3 of the
\* layers before it.
C22_Witness ==
    /\ scanned
    /\ sd_file = Path("mixed.gcode")
    /\ 4 \in DOMAIN transform_map
    /\ transform_map[4].layer = 3
    /\ transform_map[4].type = "inner"
    /\ transform_map[4].current_z = 2 * (Scale \div 10)
    /\ transform_map[4].layer_height = 3 * (Scale \div 10)

C24_CurrentLayerFollowsMap ==
    [][/\ scanned' => current_layer' = 0
       /\ ~scanned' => current_layer' >= current_layer
       /\ current_layer' =
             SetMax({0} \cup {transform_map'[k].layer :
                                 k \in {j \in DOMAIN transform_map' :
                                           j <= g1_command_count'}})]_vars

\* C24 witness: with the engine disabled a command with a mapped ordinal was
\* passed through, and current_layer is the layer of its instruction.
C24_Witness ==
    /\ ~enabled
    /\ Len(g1_events) = 1
    /\ g1_events[1].ordinal \in DOMAIN transform_map
    /\ current_layer = transform_map[g1_events[1].ordinal].layer
    /\ current_layer > 0

\* C25: whenever the engine's scan of a toolpath has left a non-empty map,
\* the validator's report for that toolpath is "compatible", with an estimate
\* of transform points at least the size of the map.
C25_ValidatorAgreesWithScan ==
    (validation.done /\ transform_map # <<>>) =>
        /\ ~validation.raised
        /\ validation.compatible
        /\ validation.transform_moves >= Cardinality(DOMAIN transform_map)

====
